---- MODULE Spec2Model ----
(***************************************************************************)
(* Model of the MongoDB storage adapter (aw-storage-mongodb):              *)
(*   - MongoCollectionSource: find / count / aggregate / update / insert / *)
(*     remove, startTransaction / commitTransaction / rollbackTransaction  *)
(*     and the private error classifier throwDataSourceError;              *)
(*   - the helpers of utils.ts and the error classes of errors.ts.         *)
(* The driver (mongodb) is the environment: every driver call either       *)
(* succeeds with a value or raises an error, chosen nondeterministically.  *)
(***************************************************************************)
EXTENDS Integers, Sequences, FiniteSets, TLC

(***************************************************************************)
(* Bounds                                                                  *)
(***************************************************************************)
\* number of sessions the driver hands out in one behaviour
MaxSessions == 2
\* longest error message (in tokens) given to the classifier
MaxMsgLen == 6
\* longest bulk operation list given to update
MaxOps == 2
\* largest count the driver reports (matched, modified, upserted)
MaxCount == 1

\* longest document list given to insert
MaxDocs == 2
\* deepest nesting of logical nodes given to the where parser
MaxDepth == 2
\* longest operand list of a logical node
MaxOperands == 2
\* longest host list and longest port list of a config
MaxHosts == 2
\* number of elements beyond which an array cannot grow
MaxArrayLen == 4
\* number of callers sharing one adapter, and of calls they make in all
MaxCallers == 2
MaxCalls == 4

(***************************************************************************)
(* Values                                                                  *)
(***************************************************************************)
\* this.currentSession when no session is held (undefined after construction,
\* null after a commit or rollback: both falsy)
Null == 0
SessionIds == 1..MaxSessions

\* a message is a sequence of tokens; Quote is the character '"', every
\* other token is a run of characters without a quote
Quote == "\""
MsgTokens == {Quote, "X"}
RECURSIVE SeqsUpTo(_, _)
SeqsUpTo(S, n) ==
    IF n = 0 THEN {<<>>}
    ELSE LET shorter == SeqsUpTo(S, n - 1)
         IN  shorter \cup {Append(s, x) : s \in {t \in shorter : Len(t) = n - 1}, x \in S}
Messages == SeqsUpTo(MsgTokens, MaxMsgLen)

\* MongoDB server error codes tested by utils.ts, and one other code
DuplicateCode == 11000
InvalidDataCode == 121
NoCode == 0
Codes == {NoCode, DuplicateCode, InvalidDataCode, 50}

Labels == {"UnknownTransactionCommitResult", "TransientTransactionError"}

\* An error object.  class is the constructor; MongoError is the driver's
\* error class (error instanceof MongoError), Error any other raised error.
\* error is the wrapped error of the wrapper classes, type their sub-kind,
\* data the additional payload of a DataSourceError.
NoError == [class |-> "none"]
RawError(class, code, labels, message) ==
    [class |-> class, code |-> code, labels |-> labels, message |-> message,
     type |-> "", error |-> NoError, data |-> <<>>]

\* errors the driver raises, all combinations (classifier inputs)
AllDriverErrors ==
    {RawError(c, k, l, m) : c \in {"MongoError", "Error"}, k \in Codes,
                            l \in SUBSET Labels, m \in Messages}
\* errors the driver raises in the adapter's behaviours: every class with
\* every code and a message quoting one identifier, a duplicate-key error
\* whose message quotes none, and driver errors carrying one label
QuotingMessage == <<"X", Quote, "X", Quote>>
DriverErrors ==
    {RawError(c, k, {}, QuotingMessage) : c \in {"MongoError", "Error"},
                                          k \in {NoCode, DuplicateCode, InvalidDataCode}}
    \cup {RawError("MongoError", DuplicateCode, {}, <<"X">>)}
    \cup {RawError("MongoError", NoCode, {l}, <<"X">>) : l \in Labels}
\* the TypeError of destructuring an undefined query
TypeError == RawError("TypeError", NoCode, {}, <<"Cannot destructure">>)

\* outcome of a call: a normal return or a raised error
Return(v) == [kind |-> "return", value |-> v, error |-> NoError]
Throw(e) == [kind |-> "throw", value |-> "undefined", error |-> e]
Undefined == "undefined"

(***************************************************************************)
(* errors.ts                                                               *)
(***************************************************************************)
PendingSessionError ==
    RawError("PendingSessionError", NoCode, {},
             <<"The current session has not ended. Cannot start a new one.">>)

BulkUpdateOperationsError ==
    RawError("BulkUpdateOperationsError", NoCode, {},
             <<"Some of the BulkUpdate operations are different than updateOne and updateMany.">>)

\* mutant: the two labels are tested in the other order
SessionErrorType_TransientFirst(error) ==
    IF error.class = "MongoError" /\ "TransientTransactionError" \in error.labels
    THEN "TransientTransactionError"
    ELSE IF error.class = "MongoError" /\ "UnknownTransactionCommitResult" \in error.labels
    THEN "UnknownTransactionCommitResult"
    ELSE "Other"

SessionErrorType(error) ==
    IF error.class = "MongoError" /\ "UnknownTransactionCommitResult" \in error.labels
    THEN "UnknownTransactionCommitResult"
    ELSE IF error.class = "MongoError" /\ "TransientTransactionError" \in error.labels
    THEN "TransientTransactionError"
    ELSE "Other"

SessionError(error) ==
    [class |-> "SessionError", code |-> NoCode, labels |-> {},
     message |-> error.message, type |-> SessionErrorType(error),
     error |-> error, data |-> <<>>]

(***************************************************************************)
(* utils.ts                                                                *)
(***************************************************************************)
\* mutant: the error's class is not tested
isDuplicateError_CodeOnly(error) == error.code = DuplicateCode

isDuplicateError(error) == error.class = "MongoError" /\ error.code = DuplicateCode

isInvalidDataError(error) == error.class = "MongoError" /\ error.code = InvalidDataCode

\* index of the first Quote of msg at or after position i, 0 if there is none
RECURSIVE NextQuote(_, _)
NextQuote(msg, i) ==
    IF i > Len(msg) THEN 0
    ELSE IF msg[i] = Quote THEN i
    ELSE NextQuote(msg, i + 1)

\* errorMessage.match(/"([^"]+)"/g) with the quotes stripped from every match:
\* leftmost, non-overlapping matches of a quote, one or more non-quote
\* characters and a quote, scanning from position i
RECURSIVE MatchQuoted(_, _)
MatchQuoted(msg, i) ==
    LET open == NextQuote(msg, i)
        close == IF open = 0 THEN 0 ELSE NextQuote(msg, open + 1)
    IN  IF open = 0 \/ close = 0 THEN <<>>
        ELSE IF close = open + 1 THEN MatchQuoted(msg, open + 1)
        ELSE <<SubSeq(msg, open + 1, close - 1)>> \o MatchQuoted(msg, close + 1)

getDuplicatedDataIds(error) == MatchQuoted(error.message, 1)

\* an element of a bulk operation list: which of the two entries are truthy
\* (an updateOne, an updateMany, another operation such as insertOne, or an
\* object carrying both entries)
UpdateOneOp == [updateOne |-> TRUE, updateMany |-> FALSE]
UpdateManyOp == [updateOne |-> FALSE, updateMany |-> TRUE]
OtherOp == [updateOne |-> FALSE, updateMany |-> FALSE]
BulkOperations == [updateOne : BOOLEAN, updateMany : BOOLEAN]

\* mutant: the flag is assigned, not cleared, for every operation, so that the
\* last operation decides
isBulkUpdate_LastOnly(operations) ==
    \/ Len(operations) = 0
    \/ ~(~operations[Len(operations)].updateOne /\ ~operations[Len(operations)].updateMany)

isBulkUpdate(operations) ==
    \A i \in 1..Len(operations) :
        ~(~operations[i].updateOne /\ ~operations[i].updateMany)

(***************************************************************************)
(* MongoCollectionSource.throwDataSourceError                              *)
(***************************************************************************)
DataSourceError(type, error, data) ==
    [class |-> "DataSourceError", code |-> NoCode, labels |-> {},
     message |-> error.message, type |-> type, error |-> error, data |-> data]

createDuplicateError(error, data) == DataSourceError("Duplicate", error, data)
createInvalidDataError(error) == DataSourceError("InvalidData", error, <<>>)
createError(error) == DataSourceError("Error", error, <<>>)

throwDataSourceError(error) ==
    IF isDuplicateError(error)
    THEN Throw(createDuplicateError(error, getDuplicatedDataIds(error)))
    ELSE IF isInvalidDataError(error)
    THEN Throw(createInvalidDataError(error))
    ELSE Throw(createError(error))

(***************************************************************************)
(* State of one MongoCollectionSource and of the driver behind it          *)
(***************************************************************************)
VARIABLES
    currentSession,   \* this.currentSession: Null or the id of the held session
    nextSession,      \* number of sessions client.startSession has handed out
    openSessions,     \* sessions handed out and not yet ended by endSession
    transactions,     \* open sessions on which session.startTransaction succeeded
    last,             \* the last completed call of a public operation
    input,            \* single-call specifications: the arguments of the call
    output,           \* single-call specifications: its result, NoOutcome before
    operatorMap,      \* MongoWhereParser.operatorMap, the static operator table
    committed,        \* sessions on which the driver's commitTransaction succeeded
    tasks             \* concurrent callers: the call each one is in or made last

adapterVars == <<currentSession, nextSession, openSessions, transactions, last, committed>>
callVars == <<input, output>>
parserVars == <<operatorMap>>
taskVars == <<tasks>>
vars == <<currentSession, nextSession, openSessions, transactions, last, input, output,
          operatorMap, committed, tasks>>

NoOutcome == [kind |-> "none", value |-> Undefined, error |-> NoError]
NoInput == [fn |-> "none"]
\* a caller that is in no call: pc is where its call stands (ready: in none,
\* awaitFirst: awaiting the driver's commit or abort, awaitEnd: awaiting
\* endSession), calls the number of calls it began, op its last call, pre the
\* session held when that began, on the session whose commit or abort it
\* awaits or awaited, ending the session it called endSession of, cleared the
\* session it replaced by null, driver its driver calls, outcome its outcome
ReadyTask ==
    [pc |-> "ready", calls |-> 0, op |-> "none", pre |-> Null, on |-> Null,
     ending |-> Null, cleared |-> Null, driver |-> <<>>, outcome |-> NoOutcome]

\* a driver call: its name, the session it is a method of (on), the session
\* passed in its options (session) and whether it succeeded
DriverCall(name, on, session, ok) ==
    [name |-> name, on |-> on, session |-> session, ok |-> ok]

\* what a handler did: the session it leaves in this.currentSession, the
\* driver calls it made in order, and its outcome
Effect(session, driver, outcome) ==
    [session |-> session, driver |-> driver, outcome |-> outcome]

\* outcomes of a driver call that returns nothing
Throws == {Throw(e) : e \in DriverErrors}
VoidOutcomes == {Return(Undefined)} \cup Throws

\* outcomes of client.startSession(): the next session, while there is one
StartSessionOutcomes ==
    (IF nextSession < MaxSessions THEN {Return(nextSession + 1)} ELSE {}) \cup Throws

\* outcomes of two driver calls made one after the other inside one try
\* block: the second call is made only if the first one returns
InOrder(first, second) ==
    {<<a, NoOutcome>> : a \in {x \in first : x.kind = "throw"}}
    \cup {<<a, b>> : a \in {x \in first : x.kind = "return"}, b \in second}

(***************************************************************************)
(* MongoCollectionSource.startTransaction                                  *)
(* cur: this.currentSession; sOut: outcome of client.startSession();       *)
(* tOut: outcome of session.startTransaction(options)                      *)
(***************************************************************************)
StartEffect(cur, sOut, tOut) ==
    IF sOut.kind = "throw"
    THEN Effect(cur, <<DriverCall("startSession", Null, Null, FALSE)>>,
                Throw(createError(SessionError(sOut.error))))
    ELSE IF tOut.kind = "throw"
    THEN Effect(sOut.value,
                <<DriverCall("startSession", Null, Null, TRUE),
                  DriverCall("startTransaction", sOut.value, Null, FALSE)>>,
                Throw(createError(SessionError(tOut.error))))
    ELSE Effect(sOut.value,
                <<DriverCall("startSession", Null, Null, TRUE),
                  DriverCall("startTransaction", sOut.value, Null, TRUE)>>,
                Return(Undefined))

\* mutant: the pending-session check is missing
startTransactionBody_NoPendingCheck(cur, sOut, tOut) == StartEffect(cur, sOut, tOut)

\* mutant: the pending-session check is made after the session was started
startTransactionBody_CheckAfterStart(cur, sOut, tOut) ==
    IF sOut.kind = "return" /\ cur # Null
    THEN Effect(cur, <<DriverCall("startSession", Null, Null, TRUE)>>,
                Throw(createError(PendingSessionError)))
    ELSE StartEffect(cur, sOut, tOut)

startTransactionBody(cur, sOut, tOut) ==
    IF cur # Null
    THEN Effect(cur, <<>>, Throw(createError(PendingSessionError)))
    ELSE StartEffect(cur, sOut, tOut)

(***************************************************************************)
(* MongoCollectionSource.commitTransaction / rollbackTransaction           *)
(* name: the driver method awaited first (commitTransaction or             *)
(* abortTransaction); fOut: its outcome; eOut: outcome of endSession()     *)
(***************************************************************************)
\* try { await session.<name>(); await session.endSession();
\*       this.currentSession = null } catch { throw SessionError }
ReleaseEffect(cur, name, fOut, eOut) ==
    IF fOut.kind = "throw"
    THEN Effect(cur, <<DriverCall(name, cur, Null, FALSE)>>,
                Throw(createError(SessionError(fOut.error))))
    ELSE IF eOut.kind = "throw"
    THEN Effect(cur,
                <<DriverCall(name, cur, Null, TRUE),
                  DriverCall("endSession", cur, Null, FALSE)>>,
                Throw(createError(SessionError(eOut.error))))
    ELSE Effect(Null,
                <<DriverCall(name, cur, Null, TRUE),
                  DriverCall("endSession", cur, Null, TRUE)>>,
                Return(Undefined))

\* the same with the session released in a finally block: endSession is
\* awaited and the field cleared also when the first call fails
ReleaseAlwaysEffect(cur, name, fOut, eOut) ==
    IF fOut.kind = "throw"
    THEN Effect(Null,
                <<DriverCall(name, cur, Null, FALSE),
                  DriverCall("endSession", cur, Null, TRUE)>>,
                Throw(createError(SessionError(fOut.error))))
    ELSE ReleaseEffect(cur, name, fOut, eOut)

\* mutant: a failed commit releases the session
commitTransactionBody_ReleaseOnFailure(cur, cOut, eOut) ==
    IF cur = Null
    THEN Effect(cur, <<>>, Return(Undefined))
    ELSE ReleaseAlwaysEffect(cur, "commitTransaction", cOut, eOut)

\* mutant: this.currentSession is not cleared after the session ended
commitTransactionBody_KeepsSession(cur, cOut, eOut) ==
    IF cur = Null
    THEN Effect(cur, <<>>, Return(Undefined))
    ELSE LET eff == ReleaseEffect(cur, "commitTransaction", cOut, eOut)
         IN  Effect(cur, eff.driver, eff.outcome)

commitTransactionBody(cur, cOut, eOut) ==
    IF cur = Null
    THEN Effect(cur, <<>>, Return(Undefined))
    ELSE ReleaseEffect(cur, "commitTransaction", cOut, eOut)

\* mutant: the test of this.currentSession is missing, so that calling
\* abortTransaction of no session raises inside the try block
rollbackTransactionBody_NoGuard(cur, aOut, eOut) ==
    IF cur = Null
    THEN Effect(cur, <<>>, Throw(createError(SessionError(TypeError))))
    ELSE ReleaseEffect(cur, "abortTransaction", aOut, eOut)

\* mutant: a failed abort releases the session
rollbackTransactionBody_ReleaseOnFailure(cur, aOut, eOut) ==
    IF cur = Null
    THEN Effect(cur, <<>>, Return(Undefined))
    ELSE ReleaseAlwaysEffect(cur, "abortTransaction", aOut, eOut)

rollbackTransactionBody(cur, aOut, eOut) ==
    IF cur = Null
    THEN Effect(cur, <<>>, Return(Undefined))
    ELSE ReleaseEffect(cur, "abortTransaction", aOut, eOut)

(***************************************************************************)
(* MongoCollectionSource.find / count / aggregate / update / insert /      *)
(* remove                                                                  *)
(***************************************************************************)
\* mutant: the caught error is raised again as it is
Catch_Rethrows(error) == Throw(error)

\* catch (error) { this.throwDataSourceError(error); }: the handler raises
\* what the classifier raises, and returns undefined if it were to return
Catch(error) ==
    LET r == throwDataSourceError(error)
    IN  IF r.kind = "throw" THEN r ELSE Return(Undefined)

\* query parameters {filter, options?} of find / count / aggregate: undefined,
\* or defined with the session its options name (Null: no options, or
\* options without a session)
QueryParams ==
    {[defined |-> FALSE, session |-> Null]}
    \cup {[defined |-> TRUE, session |-> s] : s \in 0..MaxSessions}
\* query parameters of remove, whose options are not read
DeleteParams == {[defined |-> d, session |-> Null] : d \in BOOLEAN}

ObjectIds == {101, 102}
Docs == {[name |-> "a", _id |-> Null], [name |-> "b", _id |-> 101]}
DocLists == {<<>>, <<[name |-> "a", _id |-> 101]>>}

\* out: outcome of collection.find(filter, options).toArray()
findBody(cur, query, out) ==
    LET call == DriverCall("find", Null, query.session, out.kind = "return")
    IN  IF out.kind = "throw"
        THEN Effect(cur, <<call>>, Catch(out.error))
        ELSE Effect(cur, <<call>>, Return(out.value))

\* out: outcome of collection.countDocuments(filter, options)
countBody(cur, query, out) ==
    LET call == DriverCall("countDocuments", Null, query.session, out.kind = "return")
    IN  IF out.kind = "throw"
        THEN Effect(cur, <<call>>, Catch(out.error))
        ELSE Effect(cur, <<call>>, Return(out.value))

\* out: outcome of collection.aggregate(pipeline, options).toArray();
\* destructuring an undefined query raises inside the try block
aggregateBody(cur, query, out) ==
    LET call == DriverCall("aggregate", Null, query.session, out.kind = "return")
    IN  IF ~query.defined
        THEN Effect(cur, <<>>, Catch(TypeError))
        ELSE IF out.kind = "throw"
        THEN Effect(cur, <<call>>, Catch(out.error))
        ELSE Effect(cur, <<call>>, Return(out.value))

\* the argument of update: undefined, a bulk operation list out of lists, or
\* update parameters {filter, update, options?, method?}
UpdateQueries(lists) ==
    {[kind |-> "undefined", session |-> Null]}
    \cup {[kind |-> "bulk", operations |-> ops, session |-> Null] : ops \in lists}
    \cup {[kind |-> "single", method |-> m, session |-> s] :
            m \in {"UpdateOne", "UpdateMany", Undefined}, s \in 0..MaxSessions}

\* results of collection.updateOne / updateMany and of collection.bulkWrite
\* with counts out of counts: the three counts, the upserted identifier of a
\* single update and the upserted identifiers of a bulk write
UpdateResults(counts) ==
    [matchedCount : counts, modifiedCount : counts, upsertedCount : counts,
     upsertedId : {Null, 101}]
BulkWriteResults(counts) ==
    [matchedCount : counts, modifiedCount : counts, upsertedCount : counts,
     upsertedIds : {[defined |-> FALSE, values |-> <<>>],
                    [defined |-> TRUE, values |-> <<>>],
                    [defined |-> TRUE, values |-> <<101>>]}]

\* mutant: an update that matched nothing but upserted counts as a success
UpdateStats_UpsertIsSuccess(matchedCount, modifiedCount, upsertedCount, upsertedIds) ==
    [status |-> IF matchedCount > 0 \/ upsertedCount > 0 THEN "Success" ELSE "Failure",
     modifiedCount |-> modifiedCount,
     upsertedCount |-> upsertedCount,
     upsertedIds |-> upsertedIds]

UpdateStats(matchedCount, modifiedCount, upsertedCount, upsertedIds) ==
    [status |-> IF matchedCount > 0 THEN "Success" ELSE "Failure",
     modifiedCount |-> modifiedCount,
     upsertedCount |-> upsertedCount,
     upsertedIds |-> upsertedIds]

\* out: outcome of the one driver call update makes
updateBody(cur, query, out) ==
    IF query.kind = "bulk"
    THEN IF isBulkUpdate(query.operations)
         THEN LET call == DriverCall("bulkWrite", Null, Null, out.kind = "return")
                  r == out.value
              IN  IF out.kind = "throw"
                  THEN Effect(cur, <<call>>, Catch(out.error))
                  ELSE Effect(cur, <<call>>,
                              Return(UpdateStats(r.matchedCount, r.modifiedCount,
                                                 r.upsertedCount,
                                                 IF r.upsertedIds.defined
                                                 THEN r.upsertedIds.values ELSE <<>>)))
         ELSE Effect(cur, <<>>, Catch(BulkUpdateOperationsError))
    ELSE IF query.kind = "undefined"
    THEN Effect(cur, <<>>, Catch(TypeError))
    ELSE LET name == IF query.method = "UpdateOne" THEN "updateOne" ELSE "updateMany"
             call == DriverCall(name, Null, query.session, out.kind = "return")
             r == out.value
         IN  IF out.kind = "throw"
             THEN Effect(cur, <<call>>, Catch(out.error))
             ELSE Effect(cur, <<call>>,
                         Return(UpdateStats(r.matchedCount, r.modifiedCount,
                                            r.upsertedCount,
                                            IF r.upsertedId # Null
                                            THEN <<r.upsertedId>> ELSE <<>>)))

\* outcomes of the driver call update makes for query
UpdateOutcomes(query, counts) ==
    (IF query.kind = "bulk" THEN {Return(r) : r \in BulkWriteResults(counts)}
     ELSE {Return(r) : r \in UpdateResults(counts)}) \cup Throws

\* the identifiers the driver reports for the documents given to insert:
\* a document's own _id, a fresh one for a document without
InsertedIds(query) ==
    {ids \in [1..Len(query) -> ObjectIds] :
        \A i \in 1..Len(query) : query[i]._id # Null => ids[i] = query[i]._id}

\* mutant: the identifier the driver assigned is not merged in
MergeId_KeepsDocument(document, id) == document

\* {_id: insertResult.insertedIds[index], ...document}
MergeId(document, id) ==
    [name |-> document.name, _id |-> IF document._id # Null THEN document._id ELSE id]

\* out: outcome of collection.insertMany(query)
insertBody(cur, query, out) ==
    LET call == DriverCall("insertMany", Null, Null, out.kind = "return")
    IN  IF out.kind = "throw"
        THEN Effect(cur, <<call>>, Catch(out.error))
        ELSE Effect(cur, <<call>>,
                    Return([i \in 1..Len(query) |-> MergeId(query[i], out.value[i])]))

\* results of collection.deleteMany with counts out of counts
AllDeleteResults(counts) == [acknowledged : BOOLEAN, deletedCount : counts]

DeleteResults ==
    {[acknowledged |-> TRUE, deletedCount |-> 1],
     [acknowledged |-> TRUE, deletedCount |-> 0],
     [acknowledged |-> FALSE, deletedCount |-> 0]}

\* mutant: the status is decided by deletedCount alone
removeBody_IgnoresAcknowledged(cur, query, out) ==
    LET call == DriverCall("deleteMany", Null, Null, out.kind = "return")
        r == out.value
    IN  IF ~query.defined
        THEN Effect(cur, <<>>, Catch(TypeError))
        ELSE IF out.kind = "throw"
        THEN Effect(cur, <<call>>, Catch(out.error))
        ELSE Effect(cur, <<call>>,
                    Return([status |-> IF r.deletedCount > 0 THEN "Success" ELSE "Failure",
                            deletedCount |-> r.deletedCount]))

\* mutant: a failed deleteMany drops the held session
removeBody_DropsSessionOnFailure(cur, query, out) ==
    LET call == DriverCall("deleteMany", Null, Null, out.kind = "return")
        r == out.value
    IN  IF ~query.defined
        THEN Effect(cur, <<>>, Catch(TypeError))
        ELSE IF out.kind = "throw"
        THEN Effect(Null, <<call>>, Catch(out.error))
        ELSE Effect(cur, <<call>>,
                    Return([status |-> IF r.acknowledged /\ r.deletedCount > 0
                                       THEN "Success"
                                       ELSE IF r.acknowledged /\ r.deletedCount = 0
                                       THEN "Failure"
                                       ELSE "Pending",
                            deletedCount |-> r.deletedCount]))

\* out: outcome of collection.deleteMany(query.filter); reading the filter
\* of an undefined query raises inside the try block
removeBody(cur, query, out) ==
    LET call == DriverCall("deleteMany", Null, Null, out.kind = "return")
        r == out.value
    IN  IF ~query.defined
        THEN Effect(cur, <<>>, Catch(TypeError))
        ELSE IF out.kind = "throw"
        THEN Effect(cur, <<call>>, Catch(out.error))
        ELSE Effect(cur, <<call>>,
                    Return([status |-> IF r.acknowledged /\ r.deletedCount > 0
                                       THEN "Success"
                                       ELSE IF r.acknowledged /\ r.deletedCount = 0
                                       THEN "Failure"
                                       ELSE "Pending",
                            deletedCount |-> r.deletedCount]))

(***************************************************************************)
(* MongoWhereParser                                                        *)
(***************************************************************************)
\* values of a where clause, and the values the parser writes itself
ClauseValues == {"v1", "v2"}
JsNull == "null"

\* a clause {nativeOperator: value} of a filter
OperatorClause(nativeOperator, value) == [op |-> nativeOperator, value |-> value]
\* the clauses { $or: [...] } and { $and: [...] } held by the operator table
EmptyClause ==
    [connective |-> "$or",
     operands |-> <<OperatorClause("$eq", "''"), OperatorClause("$eq", "[]"),
                    OperatorClause("$eq", "{}")>>]
NotEmptyClause ==
    [connective |-> "$and",
     operands |-> <<OperatorClause("$ne", "''"), OperatorClause("$ne", "[]"),
                    OperatorClause("$ne", "{}")>>]

\* the operator table as the class is loaded
OperatorTable ==
    ("isEq" :> "$eq") @@ ("isNotEq" :> "$ne") @@ ("isLt" :> "$lt")
    @@ ("isLte" :> "$lte") @@ ("isGt" :> "$gt") @@ ("isGte" :> "$gte")
    @@ ("isInRange" :> "$in") @@ ("isNotInRange" :> "$nin") @@ ("isIn" :> "$in")
    @@ ("isNotIn" :> "$nin") @@ ("isTrue" :> "$eq") @@ ("isFalse" :> "$eq")
    @@ ("is0" :> "$eq") @@ ("is1" :> "$eq") @@ ("isNull" :> "$eq")
    @@ ("isNotNull" :> "$ne")
    @@ [o \in {"isEmpty", "isNotEmpty"} |->
            IF o = "isEmpty" THEN EmptyClause ELSE NotEmptyClause]

\* operators a where clause can carry: those of the table, isBetween, which
\* the table does not map, and NaN, which is no WhereOperator at all
WhereOperators == DOMAIN OperatorTable \cup {"isBetween", "NaN"}
\* WhereOperator[operator]: the name of an enumeration member
WhereOperatorName(operator) == IF operator = "NaN" THEN Undefined ELSE operator

UnsupportedOperatorError(name) ==
    RawError("UnsupportedOperatorError", NoCode, {},
             <<"Unsupported operator ", Quote, name, Quote, ".">>)
\* this.parse read in a call of parse that map made without a receiver
UnboundThisError ==
    RawError("TypeError", NoCode, {},
             <<"Cannot read properties of undefined (reading 'parse')">>)

\* A where expression is one of
\*   [kind |-> "raw", result]    a Where with isRaw, holding a native filter
\*   [kind |-> "where", chain]   a Where with isRaw = false; chain lists its
\*                               clauses [key, operator, value] in key order
\*   [kind |-> "object", entries] any other object; entries lists its
\*                               properties [key, values] in key order
\* A filter lists its properties [key, clause] in the order they were set.
RawWhere(result) == [kind |-> "raw", result |-> result]
Where(chain) == [kind |-> "where", chain |-> chain]
WhereObject(entries) == [kind |-> "object", entries |-> entries]
WhereClause(key, operator, value) == [key |-> key, operator |-> operator, value |-> value]
Property(key, values) == [key |-> key, values |-> values]
FilterEntry(key, clause) == [key |-> key, clause |-> clause]
EmptyFilter == <<>>

\* mutant: isNull keeps the value of the where clause
clauseOf_NullKeepsValue(map, whereClause) ==
    IF whereClause.operator \in {"isEmpty", "isNotEmpty"}
    THEN map[whereClause.operator]
    ELSE OperatorClause(map[whereClause.operator], whereClause.value)

\* the value the loop body assigns to query[key]
clauseOf(map, whereClause) ==
    IF whereClause.operator \in {"isEmpty", "isNotEmpty"}
    THEN map[whereClause.operator]
    ELSE IF whereClause.operator = "isNull"
    THEN OperatorClause(map[whereClause.operator], JsNull)
    ELSE OperatorClause(map[whereClause.operator], whereClause.value)

\* for (const key in chain) { ... }, from the i-th clause on
RECURSIVE parseChain(_, _, _, _)
parseChain(map, chain, i, query) ==
    IF i > Len(chain) THEN Return(query)
    ELSE IF chain[i].operator \notin DOMAIN map
    THEN Throw(UnsupportedOperatorError(WhereOperatorName(chain[i].operator)))
    ELSE parseChain(map, chain, i + 1,
                    Append(query, FilterEntry(chain[i].key, clauseOf(map, chain[i]))))

\* parse(where) with the operator table map; bound tells whether this is the
\* class (a call MongoWhereParser.parse(where)) or undefined (a call made by
\* values.map(this.parse))
RECURSIVE parse(_, _, _)
RECURSIVE mapParse(_, _)
\* values.map(this.parse): the results in order, or the first error raised
mapParse(map, values) ==
    IF values = <<>> THEN Return(<<>>)
    ELSE LET first == parse(map, Head(values), FALSE)
         IN  IF first.kind = "throw" THEN first
             ELSE LET rest == mapParse(map, Tail(values))
                  IN  IF rest.kind = "throw" THEN rest
                      ELSE Return(<<first.value>> \o rest.value)

parse(map, where, bound) ==
    IF where.kind = "raw" THEN Return(where.result)
    ELSE IF where.kind = "where" THEN parseChain(map, where.chain, 1, EmptyFilter)
    ELSE LET operator == IF where.entries = <<>> THEN Undefined
                         ELSE where.entries[1].key
         IN  IF operator \notin {"and", "or"}
             THEN Throw(UnsupportedOperatorError(operator))
             ELSE IF ~bound THEN Throw(UnboundThisError)
             ELSE LET list == mapParse(map, where.entries[1].values)
                  IN  IF list.kind = "throw" THEN list
                      ELSE Return(<<FilterEntry(IF operator = "and" THEN "$and" ELSE "$or",
                                                list.value)>>)

(***************************************************************************)
(* MongoQueryBuilders (mongo.query-builders.ts): buildUpdateQuery and      *)
(* buildAggregationQuery                                                   *)
(***************************************************************************)
\* the decimal numeral of a count, as a message prints it
Decimal(n) == <<"0", "1", "2", "3", "4", "5", "6", "7", "8", "9">>[n + 1]

ParameterCountError(updates, wheres, methods) ==
    RawError("Error", NoCode, {},
             <<"The number of parameters does not match. Number of updates: ",
               Decimal(updates), ", where clauses: ", Decimal(wheres),
               ", method types: ", Decimal(methods)>>)
UnknownUpdateMethodError(method) ==
    RawError("Error", NoCode, {},
             <<"Unknown update method with index ", Quote, method, Quote, ".">>)

\* mutant: every bulk document is given the upsert option
UpdateDocument_UpsertAlways(map, fields, where, method, bulk) ==
    LET filter == parse(map, where, TRUE)
        update == [set |-> fields]
    IN  IF filter.kind = "throw" THEN filter
        ELSE IF method \notin {"UpdateOne", "UpdateMany"}
        THEN Throw(UnknownUpdateMethodError(method))
        ELSE IF ~bulk
        THEN Return([filter |-> filter.value, update |-> update,
                     options |-> IF method = "UpdateOne" THEN {"upsert"} ELSE {},
                     method |-> method])
        ELSE IF method = "UpdateOne"
        THEN Return([updateOne |->
                        [filter |-> filter.value, update |-> update, upsert |-> TRUE]])
        ELSE Return([updateMany |->
                        [filter |-> filter.value, update |-> update, upsert |-> TRUE]])

\* what one triple becomes: the parameters of a single update {filter,
\* update: {$set: fields}, options, method} (options lists the options set to
\* true), or, in a bulk list, a document {updateOne: {filter, update, upsert:
\* true}} or {updateMany: {filter, update}}
UpdateDocument(map, fields, where, method, bulk) ==
    LET filter == parse(map, where, TRUE)
        update == [set |-> fields]
    IN  IF filter.kind = "throw" THEN filter
        ELSE IF method \notin {"UpdateOne", "UpdateMany"}
        THEN Throw(UnknownUpdateMethodError(method))
        ELSE IF ~bulk
        THEN Return([filter |-> filter.value, update |-> update,
                     options |-> IF method = "UpdateOne" THEN {"upsert"} ELSE {},
                     method |-> method])
        ELSE IF method = "UpdateOne"
        THEN Return([updateOne |->
                        [filter |-> filter.value, update |-> update, upsert |-> TRUE]])
        ELSE Return([updateMany |-> [filter |-> filter.value, update |-> update]])

\* the bulk documents of the triples from the i-th on, appended to documents
RECURSIVE buildBulk(_, _, _, _, _, _)
buildBulk(map, updates, wheres, methods, i, documents) ==
    IF i > Len(updates) THEN Return(documents)
    ELSE LET document == UpdateDocument(map, updates[i], wheres[i], methods[i], TRUE)
         IN  IF document.kind = "throw" THEN document
             ELSE buildBulk(map, updates, wheres, methods, i + 1,
                            Append(documents, document.value))

\* mutant: only the updates are compared with the where clauses
buildUpdateQuery_ComparesTwo(map, updates, wheres, methods) ==
    IF Len(updates) # Len(wheres)
    THEN Throw(ParameterCountError(Len(updates), Len(wheres), Len(methods)))
    ELSE IF Len(updates) # Len(methods)
    THEN Return(<<>>)
    ELSE IF Len(updates) = 1
    THEN UpdateDocument(map, updates[1], wheres[1], methods[1], FALSE)
    ELSE buildBulk(map, updates, wheres, methods, 1, <<>>)

\* buildUpdateQuery(updates, where, methods): the three counts are compared
\* first; one triple gives update parameters, any other number a bulk list
buildUpdateQuery(map, updates, wheres, methods) ==
    IF ~(Len(updates) = Len(wheres) /\ Len(wheres) = Len(methods))
    THEN Throw(ParameterCountError(Len(updates), Len(wheres), Len(methods)))
    ELSE IF Len(updates) = 1
    THEN UpdateDocument(map, updates[1], wheres[1], methods[1], FALSE)
    ELSE buildBulk(map, updates, wheres, methods, 1, <<>>)

\* An optional parameter is <<>> when absent and <<value>> when given.
\* mutant: the count is taken with $count
GroupStage_CountOperator(params) ==
    [stage |-> "$group",
     body |->
       [_id |-> [i \in 1..Len(params.groupBy[1]) |->
                    [key |-> params.groupBy[1][i], ref |-> params.groupBy[1][i]]],
        aggregates |->
          (IF params.sum # <<>>
           THEN <<[name |-> "totalSum", op |-> "$sum", ref |-> params.sum[1],
                   literal |-> FALSE]>> ELSE <<>>)
          \o (IF params.average # <<>>
              THEN <<[name |-> "average", op |-> "$avg", ref |-> params.average[1],
                      literal |-> FALSE]>> ELSE <<>>)
          \o (IF params.min # <<>>
              THEN <<[name |-> "min", op |-> "$min", ref |-> params.min[1],
                      literal |-> FALSE]>> ELSE <<>>)
          \o (IF params.max # <<>>
              THEN <<[name |-> "max", op |-> "$max", ref |-> params.max[1],
                      literal |-> FALSE]>> ELSE <<>>)
          \o (IF params.count
              THEN <<[name |-> "count", op |-> "$count", ref |-> "1",
                      literal |-> TRUE]>> ELSE <<>>)]]

\* the single $group stage: _id lists {key: '$key'} for the group keys in
\* order; aggregates lists {name: {op: '$field'}} for the aggregates asked
\* for, and {count: {$sum: 1}} (a literal, not a field) for the count
GroupStage(params) ==
    [stage |-> "$group",
     body |->
       [_id |-> [i \in 1..Len(params.groupBy[1]) |->
                    [key |-> params.groupBy[1][i], ref |-> params.groupBy[1][i]]],
        aggregates |->
          (IF params.sum # <<>>
           THEN <<[name |-> "totalSum", op |-> "$sum", ref |-> params.sum[1],
                   literal |-> FALSE]>> ELSE <<>>)
          \o (IF params.average # <<>>
              THEN <<[name |-> "average", op |-> "$avg", ref |-> params.average[1],
                      literal |-> FALSE]>> ELSE <<>>)
          \o (IF params.min # <<>>
              THEN <<[name |-> "min", op |-> "$min", ref |-> params.min[1],
                      literal |-> FALSE]>> ELSE <<>>)
          \o (IF params.max # <<>>
              THEN <<[name |-> "max", op |-> "$max", ref |-> params.max[1],
                      literal |-> FALSE]>> ELSE <<>>)
          \o (IF params.count
              THEN <<[name |-> "count", op |-> "$sum", ref |-> "1",
                      literal |-> TRUE]>> ELSE <<>>)]]

\* the $match stage of an optional condition: no stage, one stage, or the
\* error of translating the condition
MatchStage(map, condition) ==
    IF condition = <<>> THEN Return(<<>>)
    ELSE LET filter == parse(map, condition[1], TRUE)
         IN  IF filter.kind = "throw" THEN filter
             ELSE Return(<<[stage |-> "$match", body |-> filter.value]>>)

\* mutant: the two conditions change places
buildAggregationQuery_FilterByFirst(map, params) ==
    LET head == MatchStage(map, params.filterBy)
        tail == MatchStage(map, params.where)
    IN  IF head.kind = "throw" THEN head
        ELSE IF tail.kind = "throw" THEN tail
        ELSE Return([pipeline |->
                        head.value
                        \o (IF params.groupBy # <<>> THEN <<GroupStage(params)>> ELSE <<>>)
                        \o (IF params.sort # <<>>
                            THEN <<[stage |-> "$sort", body |-> params.sort[1]]>>
                            ELSE <<>>)
                        \o tail.value,
                     options |-> {}])

\* buildAggregationQuery(params): $match from where, $group, $sort, $match
\* from filterBy, each stage only when its parameter is given
buildAggregationQuery(map, params) ==
    LET head == MatchStage(map, params.where)
        tail == MatchStage(map, params.filterBy)
    IN  IF head.kind = "throw" THEN head
        ELSE IF tail.kind = "throw" THEN tail
        ELSE Return([pipeline |->
                        head.value
                        \o (IF params.groupBy # <<>> THEN <<GroupStage(params)>> ELSE <<>>)
                        \o (IF params.sort # <<>>
                            THEN <<[stage |-> "$sort", body |-> params.sort[1]]>>
                            ELSE <<>>)
                        \o tail.value,
                     options |-> {}])

(***************************************************************************)
(* utils.ts: buildMongoUrl.  The file holds two definitions; the second    *)
(* one belongs to the utilities the adapter imports.                       *)
(***************************************************************************)
\* while (hostsPortsDiff > 0) { ports.push(defaultPort); ... }: the first
\* definition recomputes hostsPortsDiff after every push (recomputes), the
\* second one declares it const and never changes it.  An array cannot grow
\* beyond MaxArrayLen elements: the push that would do so fails.
RECURSIVE pushPorts(_, _, _, _, _)
pushPorts(hosts, ports, defaultPort, hostsPortsDiff, recomputes) ==
    IF ~(hostsPortsDiff > 0) THEN Return(ports)
    ELSE IF Len(ports) >= MaxArrayLen
    THEN Throw(RawError("RangeError", NoCode, {}, <<"Invalid array length">>))
    ELSE pushPorts(hosts, Append(ports, defaultPort), defaultPort,
                   IF recomputes THEN Len(hosts) - (Len(ports) + 1) ELSE hostsPortsDiff,
                   recomputes)

\* the url built from the hosts and the padded ports: the scheme, the
\* credentials, host:port for every host, and the options in the order they
\* were set
UrlOf(config, hosts, ports) ==
    LET credentials == config.user # "" /\ config.password # ""
    IN  [scheme |-> IF config.srv THEN "mongodb+srv://" ELSE "mongodb://",
         credentials |-> IF credentials THEN <<config.user, config.password>> ELSE <<>>,
         hostsAndPorts |->
             [i \in 1..Len(hosts) |->
                 [host |-> hosts[i],
                  port |-> IF i <= Len(ports) /\ ports[i] \notin {"", Undefined}
                           THEN ports[i] ELSE ports[1]]],
         params |->
             (IF credentials
              THEN <<<<"authMechanism", IF config.authMechanism # ""
                                        THEN config.authMechanism ELSE "DEFAULT">>>>
              ELSE <<>>)
             \o (IF config.ssl THEN <<<<"ssl", "true">>>> ELSE <<>>)
             \o (IF config.authSource # "" THEN <<<<"authSource", config.authSource>>>>
                 ELSE <<>>)
             \o (IF config.replicaSet # "" THEN <<<<"replicaSet", config.replicaSet>>>>
                 ELSE <<>>)]

\* the first definition: hosts and ports default when missing or empty
buildMongoUrlFirst(config) ==
    LET hosts == IF config.hosts # <<>> /\ config.hosts[1] # <<>>
                 THEN config.hosts[1] ELSE <<"localhost">>
        ports == IF config.ports # <<>> /\ config.ports[1] # <<>>
                 THEN config.ports[1] ELSE <<"27017">>
        padded == pushPorts(hosts, ports, ports[1], Len(hosts) - Len(ports), TRUE)
    IN  IF padded.kind = "throw" THEN padded
        ELSE Return(UrlOf(config, hosts, padded.value))

\* the second definition: hosts and ports default when missing
buildMongoUrl(config) ==
    LET hosts == IF config.hosts # <<>> THEN config.hosts[1] ELSE <<"localhost">>
        ports == IF config.ports # <<>> THEN config.ports[1] ELSE <<"27017">>
        defaultPort == IF ports = <<>> THEN Undefined ELSE ports[1]
        padded == pushPorts(hosts, ports, defaultPort, Len(hosts) - Len(ports), FALSE)
    IN  IF padded.kind = "throw" THEN padded
        ELSE Return(UrlOf(config, hosts, padded.value))

(***************************************************************************)
(* The public operations as actions: one call running to completion        *)
(***************************************************************************)
SessionOps == {"startTransaction", "commitTransaction", "rollbackTransaction"}
DataOps == {"find", "count", "aggregate", "update", "insert", "remove"}

\* sessions a handler's driver calls started, ended, put in a transaction
Started(driver) ==
    IF \E i \in 1..Len(driver) : driver[i].name = "startSession" /\ driver[i].ok
    THEN {nextSession + 1} ELSE {}
Ended(driver) ==
    {driver[i].on : i \in {j \in 1..Len(driver) :
                              driver[j].name = "endSession" /\ driver[j].ok}}
InTransaction(driver) ==
    {driver[i].on : i \in {j \in 1..Len(driver) :
                              driver[j].name = "startTransaction" /\ driver[j].ok}}

\* the record of a completed call of op with argument query and effect eff;
\* raised is the error raised inside the handler, NoError if none
Call(op, query, eff, raised) ==
    [op |-> op, query |-> query, pre |-> currentSession,
     driver |-> eff.driver, raised |-> raised, outcome |-> eff.outcome]

\* the handler's effect on the adapter and on the driver's sessions
Settle(eff) ==
    /\ currentSession' = eff.session
    /\ nextSession' = nextSession + Cardinality(Started(eff.driver))
    /\ openSessions' = (openSessions \cup Started(eff.driver)) \ Ended(eff.driver)
    /\ transactions' = (transactions \cup InTransaction(eff.driver)) \ Ended(eff.driver)
    /\ committed' = committed \cup {eff.driver[i].on : i \in {j \in 1..Len(eff.driver) :
                              eff.driver[j].name = "commitTransaction" /\ eff.driver[j].ok}}
    /\ UNCHANGED <<callVars, parserVars, taskVars>>

\* the error raised by the first failing outcome of outs, NoError if none fails
RECURSIVE FirstError(_)
FirstError(outs) ==
    IF outs = <<>> THEN NoError
    ELSE IF Head(outs).kind = "throw" THEN Head(outs).error
    ELSE FirstError(Tail(outs))

\* the error raised inside a handler: that of its failed driver call, or the
\* one raised before any driver call (early)
Raised(eff, outs, early) ==
    IF Len(eff.driver) = 0 THEN early ELSE FirstError(outs)

startTransaction ==
    \E outs \in InOrder(StartSessionOutcomes, VoidOutcomes) :
        LET eff == startTransactionBody(currentSession, outs[1], outs[2])
        IN  /\ last' = Call("startTransaction", Undefined, eff, Raised(eff, outs, NoError))
            /\ Settle(eff)

commitTransaction ==
    \E outs \in InOrder(VoidOutcomes, VoidOutcomes) :
        LET eff == commitTransactionBody(currentSession, outs[1], outs[2])
        IN  /\ last' = Call("commitTransaction", Undefined, eff, Raised(eff, outs, NoError))
            /\ Settle(eff)

rollbackTransaction ==
    \E outs \in InOrder(VoidOutcomes, VoidOutcomes) :
        LET eff == rollbackTransactionBody(currentSession, outs[1], outs[2])
        IN  /\ last' = Call("rollbackTransaction", Undefined, eff, Raised(eff, outs, NoError))
            /\ Settle(eff)

\* arguments and driver results of the data operations in the adapter's
\* behaviours (the single-call specifications below range over more)
AdapterBulkLists == {<<UpdateOneOp>>, <<UpdateManyOp, OtherOp>>}
AdapterUpdateOutcomes(query) ==
    (IF query.kind = "bulk"
     THEN {Return([matchedCount |-> 1, modifiedCount |-> 1, upsertedCount |-> 0,
                   upsertedIds |-> [defined |-> TRUE, values |-> <<>>]]),
           Return([matchedCount |-> 0, modifiedCount |-> 0, upsertedCount |-> 1,
                   upsertedIds |-> [defined |-> TRUE, values |-> <<101>>]])}
     ELSE {Return([matchedCount |-> 1, modifiedCount |-> 1, upsertedCount |-> 0,
                   upsertedId |-> Null]),
           Return([matchedCount |-> 0, modifiedCount |-> 0, upsertedCount |-> 1,
                   upsertedId |-> 101])}) \cup Throws
AdapterInsertQueries ==
    {<<[name |-> "a", _id |-> Null]>>,
     <<[name |-> "a", _id |-> Null], [name |-> "b", _id |-> 101]>>}

find ==
    \E query \in QueryParams, out \in {Return(l) : l \in DocLists} \cup Throws :
        LET eff == findBody(currentSession, query, out)
        IN  /\ last' = Call("find", query, eff, Raised(eff, <<out>>, NoError))
            /\ Settle(eff)

count ==
    \E query \in QueryParams, out \in {Return(n) : n \in {0, 1}} \cup Throws :
        LET eff == countBody(currentSession, query, out)
        IN  /\ last' = Call("count", query, eff, Raised(eff, <<out>>, NoError))
            /\ Settle(eff)

aggregate ==
    \E query \in QueryParams, out \in {Return(l) : l \in DocLists} \cup Throws :
        LET eff == aggregateBody(currentSession, query, out)
        IN  /\ last' = Call("aggregate", query, eff, Raised(eff, <<out>>, TypeError))
            /\ Settle(eff)

update ==
    \E query \in UpdateQueries(AdapterBulkLists) :
        \E out \in AdapterUpdateOutcomes(query) :
            LET eff == updateBody(currentSession, query, out)
            IN  /\ last' = Call("update", query, eff,
                          Raised(eff, <<out>>, IF query.kind = "bulk"
                                               THEN BulkUpdateOperationsError
                                               ELSE TypeError))
                /\ Settle(eff)

insert ==
    \E query \in AdapterInsertQueries :
        \E out \in {Return(ids) : ids \in InsertedIds(query)} \cup Throws :
            LET eff == insertBody(currentSession, query, out)
            IN  /\ last' = Call("insert", query, eff, Raised(eff, <<out>>, NoError))
                /\ Settle(eff)

remove ==
    \E query \in DeleteParams, out \in {Return(r) : r \in DeleteResults} \cup Throws :
        LET eff == removeBody(currentSession, query, out)
        IN  /\ last' = Call("remove", query, eff, Raised(eff, <<out>>, TypeError))
            /\ Settle(eff)

(***************************************************************************)
(* Specification of the adapter: the public operations called one after    *)
(* the other on one instance, each running to completion                   *)
(***************************************************************************)
InitAdapter ==
    /\ currentSession = Null
    /\ nextSession = 0
    /\ openSessions = {}
    /\ transactions = {}
    /\ last = [op |-> "none", query |-> Undefined, pre |-> Null, driver |-> <<>>,
               raised |-> NoError, outcome |-> NoOutcome]
    /\ operatorMap = OperatorTable
    /\ committed = {}
    /\ tasks = [t \in 1..MaxCallers |-> ReadyTask]

Init ==
    /\ InitAdapter
    /\ input = NoInput
    /\ output = NoOutcome

Next ==
    \/ startTransaction
    \/ commitTransaction
    \/ rollbackTransaction
    \/ find
    \/ count
    \/ aggregate
    \/ update
    \/ insert
    \/ remove

Spec == Init /\ [][Next]_vars

(***************************************************************************)
(* The session operations called concurrently on one instance.  An async   *)
(* method runs without interruption up to its next await and is resumed    *)
(* when the awaited driver call has settled; other callers run in between. *)
(***************************************************************************)
\* outcomes of a driver call of a concurrent caller
AwaitedOutcomes == {Return(Undefined), Throw(RawError("MongoError", NoCode, {}, <<"X">>))}

\* startTransaction awaits nothing: the whole call is one step
startTransactionCall(t) ==
    /\ tasks[t].pc = "ready"
    /\ Cardinality({c \in (1..MaxCallers) \X (1..MaxCalls) : c[2] <= tasks[c[1]].calls})
           < MaxCalls
    /\ \E outs \in InOrder({o \in StartSessionOutcomes :
                               o.kind = "return" \/ o \in AwaitedOutcomes},
                           AwaitedOutcomes) :
          LET eff == startTransactionBody(currentSession, outs[1], outs[2])
          IN  /\ tasks' = [tasks EXCEPT ![t] =
                              [pc |-> "ready", calls |-> @.calls + 1,
                               op |-> "startTransaction", pre |-> currentSession,
                               on |-> Null, ending |-> Null, cleared |-> Null,
                               driver |-> eff.driver, outcome |-> eff.outcome]]
              /\ currentSession' = eff.session
              /\ nextSession' = nextSession + Cardinality(Started(eff.driver))
              /\ openSessions' = openSessions \cup Started(eff.driver)
              /\ transactions' = transactions \cup InTransaction(eff.driver)
    /\ UNCHANGED <<last, committed, callVars, parserVars>>

\* commitTransaction / rollbackTransaction up to the first await: the test
\* of this.currentSession and the call of its commitTransaction or
\* abortTransaction
beginRelease(t) ==
    /\ tasks[t].pc = "ready"
    /\ Cardinality({c \in (1..MaxCallers) \X (1..MaxCalls) : c[2] <= tasks[c[1]].calls})
           < MaxCalls
    /\ \E op \in {"commitTransaction", "rollbackTransaction"} :
          tasks' = [tasks EXCEPT ![t] =
                       [pc |-> IF currentSession = Null THEN "ready" ELSE "awaitFirst",
                        calls |-> @.calls + 1, op |-> op, pre |-> currentSession,
                        on |-> currentSession, ending |-> Null, cleared |-> Null,
                        driver |-> <<>>,
                        outcome |-> IF currentSession = Null THEN Return(Undefined)
                                    ELSE NoOutcome]]
    /\ UNCHANGED <<adapterVars, callVars, parserVars>>

\* resumed after the first await: the catch block if the driver call failed,
\* else this.currentSession is read again and its endSession called and
\* awaited (a TypeError, caught as well, if the field is null by now)
resumeRelease(t) ==
    /\ tasks[t].pc = "awaitFirst"
    /\ \E fOut \in AwaitedOutcomes :
          LET name == IF tasks[t].op = "commitTransaction"
                      THEN "commitTransaction" ELSE "abortTransaction"
              call == DriverCall(name, tasks[t].on, Null, fOut.kind = "return")
          IN  /\ committed' = IF name = "commitTransaction" /\ fOut.kind = "return"
                              THEN committed \cup {tasks[t].on} ELSE committed
              /\ tasks' = [tasks EXCEPT ![t] =
                    IF fOut.kind = "throw"
                    THEN [@ EXCEPT !.pc = "ready", !.driver = <<call>>,
                                   !.outcome = Throw(createError(SessionError(fOut.error)))]
                    ELSE IF currentSession = Null
                    THEN [@ EXCEPT !.pc = "ready", !.driver = <<call>>,
                                   !.outcome =
                                       Throw(createError(SessionError(
                                           RawError("TypeError", NoCode, {},
                                                    <<"Cannot read properties of null">>))))]
                    ELSE [@ EXCEPT !.pc = "awaitEnd", !.driver = <<call>>,
                                   !.ending = currentSession]]
    /\ UNCHANGED <<currentSession, nextSession, openSessions, transactions, last,
                   callVars, parserVars>>

\* resumed after the second await: the catch block if endSession failed, else
\* this.currentSession = null
finishRelease(t) ==
    /\ tasks[t].pc = "awaitEnd"
    /\ \E eOut \in AwaitedOutcomes :
          LET call == DriverCall("endSession", tasks[t].ending, Null, eOut.kind = "return")
          IN  IF eOut.kind = "throw"
              THEN /\ tasks' = [tasks EXCEPT ![t] =
                          [@ EXCEPT !.pc = "ready", !.driver = Append(@, call),
                                    !.outcome =
                                        Throw(createError(SessionError(eOut.error)))]]
                   /\ UNCHANGED <<currentSession, openSessions, transactions>>
              ELSE /\ tasks' = [tasks EXCEPT ![t] =
                          [@ EXCEPT !.pc = "ready", !.driver = Append(@, call),
                                    !.cleared = currentSession,
                                    !.outcome = Return(Undefined)]]
                   /\ currentSession' = Null
                   /\ openSessions' = openSessions \ {tasks[t].ending}
                   /\ transactions' = transactions \ {tasks[t].ending}
    /\ UNCHANGED <<nextSession, last, committed, callVars, parserVars>>

InitConcurrent ==
    /\ InitAdapter
    /\ input = NoInput
    /\ output = NoOutcome

NextConcurrent ==
    \E t \in 1..MaxCallers :
        \/ startTransactionCall(t)
        \/ beginRelease(t)
        \/ resumeRelease(t)
        \/ finishRelease(t)

SpecConcurrent == InitConcurrent /\ [][NextConcurrent]_vars

(***************************************************************************)
(* Single-call specifications: one pure function of the adapter applied    *)
(* once to arguments drawn from bounded sets                               *)
(***************************************************************************)
\* throwDataSourceError applied to one error
ClassifierInputs ==
    AllDriverErrors \cup {PendingSessionError, BulkUpdateOperationsError, TypeError}

InitClassify ==
    /\ InitAdapter
    /\ input \in {[fn |-> "throwDataSourceError", error |-> e] : e \in ClassifierInputs}
    /\ output = NoOutcome

Classify ==
    /\ output = NoOutcome
    /\ input.fn = "throwDataSourceError"
    /\ output' = throwDataSourceError(input.error)
    /\ UNCHANGED <<input, adapterVars, parserVars, taskVars>>

NextClassify == Classify

SpecClassify == InitClassify /\ [][NextClassify]_vars

\* update applied to one argument and one outcome of its driver call, on an
\* adapter without or with a held session
BulkLists == SeqsUpTo(BulkOperations, MaxOps)

UpdateInputs ==
    UNION {{[fn |-> "update", cur |-> c, query |-> q, out |-> o] :
              c \in {Null, 1}, o \in UpdateOutcomes(q, 0..MaxCount)} :
           q \in UpdateQueries(BulkLists)}

InitUpdate ==
    /\ InitAdapter
    /\ input \in UpdateInputs
    /\ output = NoOutcome

ApplyUpdate ==
    /\ output = NoOutcome
    /\ input.fn = "update"
    /\ output' = updateBody(input.cur, input.query, input.out)
    /\ UNCHANGED <<input, adapterVars, parserVars, taskVars>>

NextUpdate == ApplyUpdate

SpecUpdate == InitUpdate /\ [][NextUpdate]_vars

\* new SessionError(error), remove and insert, each applied once
SessionErrorInputs ==
    {RawError(c, k, l, <<"X">>) : c \in {"MongoError", "Error"}, k \in Codes,
                                  l \in SUBSET Labels}
    \cup {PendingSessionError, TypeError}

RemoveInputs ==
    {[fn |-> "remove", cur |-> c, query |-> q, out |-> o] :
        c \in {Null, 1}, q \in DeleteParams,
        o \in {Return(r) : r \in AllDeleteResults(0..MaxCount)} \cup Throws}

InsertQueries == SeqsUpTo(Docs, MaxDocs)

InsertInputs ==
    UNION {{[fn |-> "insert", cur |-> c, query |-> q, out |-> o] :
              c \in {Null, 1},
              o \in {Return(ids) : ids \in InsertedIds(q)} \cup Throws} :
           q \in InsertQueries}

InitResults ==
    /\ InitAdapter
    /\ input \in {[fn |-> "SessionError", error |-> e] : e \in SessionErrorInputs}
                 \cup RemoveInputs \cup InsertInputs
    /\ output = NoOutcome

NewSessionError ==
    /\ output = NoOutcome
    /\ input.fn = "SessionError"
    /\ output' = Return(SessionError(input.error))
    /\ UNCHANGED <<input, adapterVars, parserVars, taskVars>>

ApplyRemove ==
    /\ output = NoOutcome
    /\ input.fn = "remove"
    /\ output' = removeBody(input.cur, input.query, input.out)
    /\ UNCHANGED <<input, adapterVars, parserVars, taskVars>>

ApplyInsert ==
    /\ output = NoOutcome
    /\ input.fn = "insert"
    /\ output' = insertBody(input.cur, input.query, input.out)
    /\ UNCHANGED <<input, adapterVars, parserVars, taskVars>>

NextResults == NewSessionError \/ ApplyRemove \/ ApplyInsert

SpecResults == InitResults /\ [][NextResults]_vars

\* MongoWhereParser.parse applied once
Fields == {"a", "b"}
WhereClauses(key) ==
    {WhereClause(key, o, v) : o \in WhereOperators, v \in ClauseValues}
\* the chains of a Where: no clause, one clause, or one clause for each of
\* two fields in either order
Chains ==
    {<<>>}
    \cup UNION {{<<c>> : c \in WhereClauses(k)} : k \in Fields}
    \cup UNION {{<<c, d>> : c \in WhereClauses(k), d \in WhereClauses(l)} :
                  <<k, l>> \in {p \in Fields \X Fields : p[1] # p[2]}}

\* the Where operands of logical nodes: supported clauses, a composite
\* clause, a clause with an operator the table does not map, a raw filter
PlainWhere == Where(<<WhereClause("a", "isEq", "v1")>>)
OperandLeaves ==
    {PlainWhere,
     Where(<<WhereClause("b", "isEmpty", "v1")>>),
     Where(<<WhereClause("a", "isBetween", "v1")>>),
     RawWhere(<<FilterEntry("a", OperatorClause("$eq", "v2"))>>)}
LogicalKeys == {"and", "or", "foo"}

\* operand lists of up to MaxOperands operands: one operand out of operands
\* at any position, PlainWhere at the others
InsertAt(list, i, x) == SubSeq(list, 1, i - 1) \o <<x>> \o SubSeq(list, i, Len(list))
OperandLists(operands) ==
    {<<>>}
    \cup UNION {{InsertAt([j \in 1..(n - 1) |-> PlainWhere], i, x) :
                    i \in 1..n, x \in operands} : n \in 1..MaxOperands}

\* objects with one property, nested to depth at most depth
RECURSIVE Nested(_)
Nested(depth) ==
    IF depth = 0 THEN OperandLeaves
    ELSE LET inner == Nested(depth - 1)
         IN  inner \cup {WhereObject(<<Property(k, l)>>) :
                            k \in LogicalKeys, l \in OperandLists(inner)}
\* the object without properties and objects with two properties
ObjectsOfTwo ==
    {WhereObject(<<>>)}
    \cup {WhereObject(<<Property(p[1], <<x>>), Property(p[2], <<y>>)>>) :
            p \in {q \in LogicalKeys \X LogicalKeys : q[1] # q[2]},
            x \in OperandLeaves, y \in OperandLeaves}

ParserInputs == {Where(c) : c \in Chains} \cup Nested(MaxDepth) \cup ObjectsOfTwo

InitParse ==
    /\ InitAdapter
    /\ input \in {[fn |-> "parse", where |-> w] : w \in ParserInputs}
    /\ output = NoOutcome

ApplyParse ==
    /\ output = NoOutcome
    /\ input.fn = "parse"
    /\ output' = parse(operatorMap, input.where, TRUE)
    /\ UNCHANGED <<input, adapterVars, parserVars, taskVars>>

NextParse == ApplyParse

SpecParse == InitParse /\ [][NextParse]_vars

\* MongoWhereParser.parse called again and again, the callers keeping the
\* filters they were returned and free to change them
SharedInputs ==
    {Where(<<WhereClause("a", o, "v1")>>) : o \in {"isEq", "isEmpty", "isNotEmpty"}}
    \cup {Where(<<WhereClause("a", "isEmpty", "v1"), WhereClause("b", "isNotEmpty", "v1")>>),
          WhereObject(<<Property("and", <<Where(<<WhereClause("b", "isEmpty", "v2")>>)>>)>>),
          RawWhere(<<FilterEntry("a", OperatorClause("$eq", "v2"))>>)}

InitShared ==
    /\ InitAdapter
    /\ input = NoInput
    /\ output = NoOutcome

CallParse ==
    \E where \in SharedInputs :
        /\ input' = [fn |-> "parse", where |-> where]
        /\ output' = parse(operatorMap, where, TRUE)
        /\ UNCHANGED <<adapterVars, parserVars, taskVars>>

\* the caller of the last parse removes the last operand of a composite
\* clause of the filter it was returned (filter[key].$or.pop()); the clause
\* is the object the operator table holds
CallerChangesFilter ==
    /\ input.fn \in {"parse", "change"}
    /\ input.where.kind = "where"
    /\ \E i \in 1..Len(input.where.chain) :
          LET operator == input.where.chain[i].operator
          IN  /\ operator \in {"isEmpty", "isNotEmpty"}
              /\ operatorMap[operator].operands # <<>>
              /\ operatorMap' =
                     [operatorMap EXCEPT ![operator].operands =
                         SubSeq(@, 1, Len(@) - 1)]
    /\ input' = [fn |-> "change", where |-> input.where]
    /\ output' = parse(operatorMap', input.where, TRUE)
    /\ UNCHANGED <<adapterVars, taskVars>>

NextShared == CallParse \/ CallerChangesFilter

SpecShared == InitShared /\ [][NextShared]_vars

\* buildUpdateQuery and buildAggregationQuery, each applied once
BuilderWheres ==
    {Where(<<WhereClause("a", "isGte", "v1")>>),
     Where(<<WhereClause("a", "isLt", "v1")>>),
     Where(<<WhereClause("b", "isBetween", "v1")>>)}

BuildUpdateInputs ==
    {[fn |-> "buildUpdateQuery", updates |-> u, wheres |-> w, methods |-> m] :
        u \in SeqsUpTo({[name |-> "John"], [name |-> "Jane"]}, MaxOps),
        w \in SeqsUpTo(BuilderWheres, MaxOps),
        m \in SeqsUpTo({"UpdateOne", "UpdateMany", "unknownMethod"}, MaxOps)}

BuildAggregationInputs ==
    {[fn |-> "buildAggregationQuery", params |-> p] :
        p \in [groupBy : {<<>>, <<<<"name">>>>, <<<<"name", "dept">>>>},
               filterBy : {<<>>} \cup {<<w>> : w \in BuilderWheres},
               sort : {<<>>, <<[field |-> "name", direction |-> 1]>>},
               sum : {<<>>, <<"salary">>},
               average : {<<>>, <<"rating">>},
               min : {<<>>, <<"age">>},
               max : {<<>>, <<"age">>},
               count : BOOLEAN,
               where : {<<>>} \cup {<<w>> : w \in BuilderWheres}]}

InitBuild ==
    /\ InitAdapter
    /\ input \in BuildUpdateInputs \cup BuildAggregationInputs
    /\ output = NoOutcome

ApplyBuildUpdate ==
    /\ output = NoOutcome
    /\ input.fn = "buildUpdateQuery"
    /\ output' = buildUpdateQuery(operatorMap, input.updates, input.wheres, input.methods)
    /\ UNCHANGED <<input, adapterVars, parserVars, taskVars>>

ApplyBuildAggregation ==
    /\ output = NoOutcome
    /\ input.fn = "buildAggregationQuery"
    /\ output' = buildAggregationQuery(operatorMap, input.params)
    /\ UNCHANGED <<input, adapterVars, parserVars, taskVars>>

NextBuild == ApplyBuildUpdate \/ ApplyBuildAggregation

SpecBuild == InitBuild /\ [][NextBuild]_vars

\* buildMongoUrl applied once; hosts and ports are <<>> when missing and
\* <<list>> when given
Configs ==
    [hosts : {<<>>} \cup {<<l>> : l \in SeqsUpTo({"h1", "h2"}, MaxHosts)},
     ports : {<<>>} \cup {<<l>> : l \in SeqsUpTo({"27017", "27018"}, MaxHosts)},
     user : {"", "admin"}, password : {"", "password"}, authMechanism : {""},
     ssl : BOOLEAN, replicaSet : {""}, srv : BOOLEAN, authSource : {""}]

InitUrl ==
    /\ InitAdapter
    /\ input \in {[fn |-> f, config |-> c] :
                     f \in {"buildMongoUrl", "buildMongoUrlFirst"}, c \in Configs}
    /\ output = NoOutcome

ApplyBuildMongoUrlFirst ==
    /\ output = NoOutcome
    /\ input.fn = "buildMongoUrlFirst"
    /\ output' = buildMongoUrlFirst(input.config)
    /\ UNCHANGED <<input, adapterVars, parserVars, taskVars>>

ApplyBuildMongoUrl ==
    /\ output = NoOutcome
    /\ input.fn = "buildMongoUrl"
    /\ output' = buildMongoUrl(input.config)
    /\ UNCHANGED <<input, adapterVars, parserVars, taskVars>>

NextUrl == ApplyBuildMongoUrlFirst \/ ApplyBuildMongoUrl

SpecUrl == InitUrl /\ [][NextUrl]_vars

(***************************************************************************)
(* Claims                                                                  *)
(***************************************************************************)

\* names of the driver calls of a handler
CallNames(driver) == {driver[i].name : i \in 1..Len(driver)}

\* the outcome is a raised DataSourceError wrapping inner
FailsWrapping(outcome, inner) ==
    /\ outcome.kind = "throw"
    /\ outcome.error.class = "DataSourceError"
    /\ outcome.error.error = inner

\* C1: startTransaction called while a session is held fails with a
\* DataSourceError wrapping PendingSessionError, makes no driver call
\* (startSession is not invoked) and leaves the held session unchanged.
C1_StartWhileActiveRejected ==
    (last.op = "startTransaction" /\ last.pre # Null) =>
        /\ FailsWrapping(last.outcome, PendingSessionError)
        /\ last.driver = <<>>
        /\ currentSession = last.pre

C1_Witness ==
    /\ last.op = "startTransaction"
    /\ last.pre # Null
    /\ last.pre \in transactions

\* C2: in every state reached by start / commit / rollback calls (and the data
\* operations) with every driver call free to fail, at most one session is
\* open, no call invokes startSession while a session is held, and a held
\* session is never replaced by another one.
C2_AtMostOneSession ==
    /\ Cardinality(openSessions) <= 1
    /\ last.pre # Null => "startSession" \notin CallNames(last.driver)
    /\ (last.pre # Null /\ currentSession # Null) => currentSession = last.pre

C2_Witness ==
    /\ last.op = "startTransaction"
    /\ last.pre = Null
    /\ currentSession = 2
    /\ openSessions = {2}

\* C3: commitTransaction and rollbackTransaction called while no session is
\* held return without error, make no driver call and leave the adapter Idle.
C3_ReleaseWhileIdleIsNoOp ==
    (last.op \in {"commitTransaction", "rollbackTransaction"} /\ last.pre = Null) =>
        /\ last.outcome = Return(Undefined)
        /\ last.driver = <<>>
        /\ currentSession = Null

C3_Witness ==
    /\ last.op = "rollbackTransaction"
    /\ last.pre = Null
    /\ nextSession > 0

\* C4: when the driver's commitTransaction (in commitTransaction) or
\* abortTransaction (in rollbackTransaction) fails on a held session, the
\* call fails with a DataSourceError wrapping a SessionError of the driver's
\* error, endSession is not invoked and the same session stays held.
C4_FailedReleaseKeepsSession ==
    (/\ last.op \in {"commitTransaction", "rollbackTransaction"}
     /\ last.pre # Null
     /\ \E i \in 1..Len(last.driver) :
            /\ last.driver[i].name \in {"commitTransaction", "abortTransaction"}
            /\ ~last.driver[i].ok) =>
        /\ FailsWrapping(last.outcome, SessionError(last.raised))
        /\ last.raised # NoError
        /\ "endSession" \notin CallNames(last.driver)
        /\ currentSession = last.pre

C4_Witness ==
    /\ last.op = "commitTransaction"
    /\ last.pre # Null
    /\ last.driver = <<DriverCall("commitTransaction", last.pre, Null, FALSE)>>

\* C5: when commitTransaction or rollbackTransaction returns on a held
\* session, the driver's commit (respectively abort) and then endSession
\* were invoked on that session, in that order and both successfully, and the
\* adapter is Idle afterwards; a startTransaction on an Idle adapter is never
\* rejected as pending.
C5_SuccessfulReleaseReturnsToIdle ==
    /\ (last.op \in {"commitTransaction", "rollbackTransaction"}
         /\ last.pre # Null /\ last.outcome.kind = "return") =>
            /\ last.driver =
                   <<DriverCall(IF last.op = "commitTransaction"
                                THEN "commitTransaction" ELSE "abortTransaction",
                                last.pre, Null, TRUE),
                     DriverCall("endSession", last.pre, Null, TRUE)>>
            /\ currentSession = Null
            /\ last.pre \notin openSessions
    /\ (last.op = "startTransaction" /\ last.pre = Null) =>
            /\ ~FailsWrapping(last.outcome, PendingSessionError)
            /\ "startSession" \in CallNames(last.driver)

C5_Witness ==
    /\ last.op = "commitTransaction"
    /\ last.pre # Null
    /\ last.outcome.kind = "return"

\* C6 as stated: rollbackTransaction on a held session invokes endSession on
\* it whether the driver's abort succeeds or fails.
C6_RollbackAlwaysEndsSession ==
    (last.op = "rollbackTransaction" /\ last.pre # Null) =>
        \E i \in 1..Len(last.driver) :
            last.driver[i].name = "endSession" /\ last.driver[i].on = last.pre

\* C6 amended: rollbackTransaction on a held session invokes endSession, on
\* that session, exactly when the driver's abort succeeded; when the abort
\* fails endSession is not invoked and the session stays held and open, as
\* for a failed commit.
C6_RollbackEndsSessionOnlyAfterAbort ==
    (last.op = "rollbackTransaction" /\ last.pre # Null) =>
        /\ last.driver # <<>>
        /\ last.driver[1] \in {DriverCall("abortTransaction", last.pre, Null, ok) :
                                  ok \in BOOLEAN}
        /\ ("endSession" \in CallNames(last.driver)) <=> last.driver[1].ok
        /\ \A i \in 1..Len(last.driver) :
              last.driver[i].name = "endSession" => last.driver[i].on = last.pre
        /\ ~last.driver[1].ok =>
              (currentSession = last.pre /\ last.pre \in openSessions)

C6_Witness ==
    /\ last.op = "rollbackTransaction"
    /\ last.pre # Null
    /\ last.driver = <<DriverCall("abortTransaction", last.pre, Null, FALSE)>>
    /\ currentSession = last.pre

\* C7: while the adapter holds a session whose transaction was started, every
\* driver call issued by find, count, aggregate, update, insert and remove is
\* given the held session.
C7_DataOpsRunInHeldSession ==
    (last.op \in DataOps /\ last.pre # Null /\ last.pre \in transactions) =>
        \A i \in 1..Len(last.driver) : last.driver[i].session = last.pre

\* C8: update called with a bulk operation list in which some element has
\* neither an updateOne nor an updateMany entry makes no driver call and
\* fails with a DataSourceError wrapping BulkUpdateOperationsError.
C8_NonUpdateBulkRejected ==
    (/\ output # NoOutcome
     /\ input.query.kind = "bulk"
     /\ \E i \in 1..Len(input.query.operations) :
            /\ ~input.query.operations[i].updateOne
            /\ ~input.query.operations[i].updateMany) =>
        /\ output.driver = <<>>
        /\ FailsWrapping(output.outcome, BulkUpdateOperationsError)
        /\ output.session = input.cur

C8_Witness ==
    /\ output # NoOutcome
    /\ input.query.kind = "bulk"
    /\ input.query.operations = <<OtherOp, UpdateOneOp>>
    /\ input.out.kind = "return"

\* C9: every call of a public operation either returns, no error having been
\* raised inside it, or fails with a DataSourceError of a taxonomy kind:
\* duplicate key or invalid data (wrapping the raised error), or the generic
\* kind wrapping a PendingSessionError, a SessionError of the raised error, a
\* BulkUpdateOperationsError or the raised error itself.  No other error
\* object reaches the caller.
C9_OnlyClassifiedErrors ==
    last.op # "none" =>
        \/ last.outcome.kind = "return" /\ last.raised = NoError
        \/ /\ last.outcome.kind = "throw"
           /\ last.outcome.error.class = "DataSourceError"
           /\ LET e == last.outcome.error
              IN  \/ /\ e.type \in {"Duplicate", "InvalidData"}
                     /\ e.error = last.raised
                     /\ last.raised.class = "MongoError"
                     /\ last.op \in DataOps
                  \/ /\ e.type = "Error"
                     /\ \/ e.error = PendingSessionError /\ last.raised = NoError
                        \/ /\ e.error.class = "SessionError"
                           /\ e.error.error = last.raised
                           /\ last.op \in SessionOps
                        \/ /\ e.error = last.raised
                           /\ last.raised # NoError
                           /\ last.op \in DataOps

C9_Witness ==
    /\ last.op = "insert"
    /\ last.raised.class = "MongoError"
    /\ last.raised.code = DuplicateCode
    /\ last.outcome.kind = "throw"
    /\ last.pre # Null

\* the quoted identifiers of a message, by the positions of its quotes: the
\* k-th quote opens a match if a non-empty run separates it from the next
\* quote and it does not close the match opened by the quote before it
QuotesOf(msg) == {i \in 1..Len(msg) : msg[i] = Quote}
NthQuote(msg, k) ==
    CHOOSE i \in QuotesOf(msg) : Cardinality({j \in QuotesOf(msg) : j < i}) = k - 1
RECURSIVE Opens(_, _)
Opens(msg, k) ==
    /\ k >= 1
    /\ k < Cardinality(QuotesOf(msg))
    /\ NthQuote(msg, k + 1) > NthQuote(msg, k) + 1
    /\ ~Opens(msg, k - 1)
RECURSIVE QuotedFrom(_, _)
QuotedFrom(msg, k) ==
    IF k >= Cardinality(QuotesOf(msg)) THEN <<>>
    ELSE (IF Opens(msg, k)
          THEN <<SubSeq(msg, NthQuote(msg, k) + 1, NthQuote(msg, k + 1) - 1)>>
          ELSE <<>>) \o QuotedFrom(msg, k + 1)

\* C10: throwDataSourceError never returns; for every error it raises one
\* DataSourceError wrapping it: duplicate-key, carrying the identifiers quoted
\* in the message, if the error is a driver error with code 11000; otherwise
\* invalid-data if it is a driver error with code 121; otherwise generic.
C10_ClassifierPrecedence ==
    output # NoOutcome =>
        /\ output.kind = "throw"
        /\ output.error.class = "DataSourceError"
        /\ output.error.error = input.error
        /\ IF input.error.class = "MongoError" /\ input.error.code = 11000
           THEN /\ output.error.type = "Duplicate"
                /\ output.error.data = QuotedFrom(input.error.message, 1)
           ELSE IF input.error.class = "MongoError" /\ input.error.code = 121
           THEN output.error.type = "InvalidData" /\ output.error.data = <<>>
           ELSE output.error.type = "Error" /\ output.error.data = <<>>

C10_Witness ==
    /\ output # NoOutcome
    /\ output.error.type = "Duplicate"
    /\ Len(output.error.data) = 2

\* C11: a SessionError built from an error has exactly one type:
\* UnknownTransactionCommitResult if the error is a driver error carrying
\* that label (also when it carries both labels), else
\* TransientTransactionError if it is a driver error carrying that label,
\* else Other, which every error that is not a driver error gets.
C11_SessionErrorTypeByLabel ==
    (input.fn = "SessionError" /\ output # NoOutcome) =>
        LET e == input.error
            t == output.value.type
            driver == e.class = "MongoError"
        IN  /\ output.value.class = "SessionError"
            /\ output.value.error = e
            /\ t \in {"UnknownTransactionCommitResult", "TransientTransactionError",
                      "Other"}
            /\ (t = "UnknownTransactionCommitResult") <=>
                   (driver /\ "UnknownTransactionCommitResult" \in e.labels)
            /\ (t = "TransientTransactionError") <=>
                   (/\ driver
                    /\ "TransientTransactionError" \in e.labels
                    /\ "UnknownTransactionCommitResult" \notin e.labels)
            /\ ~driver => t = "Other"

C11_Witness ==
    /\ input.fn = "SessionError"
    /\ input.error.class = "MongoError"
    /\ input.error.labels = Labels
    /\ output # NoOutcome
    /\ output.value.type = "UnknownTransactionCommitResult"

\* C12: when update returns, for the single-command and for the bulk form,
\* its status is Success exactly when the driver's matchedCount is greater
\* than 0 and Failure otherwise (also when documents were upserted), and
\* modifiedCount and upsertedCount are the driver's values.
C12_UpdateStatusFromMatchedCount ==
    (input.fn = "update" /\ output # NoOutcome /\ output.outcome.kind = "return") =>
        LET r == input.out.value
            stats == output.outcome.value
        IN  /\ input.out.kind = "return"
            /\ input.query.kind \in {"single", "bulk"}
            /\ stats.status \in {"Success", "Failure"}
            /\ (stats.status = "Success") <=> (r.matchedCount > 0)
            /\ stats.modifiedCount = r.modifiedCount
            /\ stats.upsertedCount = r.upsertedCount

C12_Witness ==
    /\ input.fn = "update"
    /\ input.query.kind = "bulk"
    /\ output # NoOutcome
    /\ output.outcome.kind = "return"
    /\ input.out.value.matchedCount = 0
    /\ input.out.value.upsertedCount > 0
    /\ output.outcome.value.status = "Failure"

\* C13: when remove returns, its status is Success iff the driver's result
\* is acknowledged with deletedCount > 0, Failure iff it is acknowledged with
\* deletedCount = 0 and Pending iff it is not acknowledged; deletedCount is
\* the driver's value.
C13_RemoveStatus ==
    (input.fn = "remove" /\ output # NoOutcome /\ output.outcome.kind = "return") =>
        LET r == input.out.value
            stats == output.outcome.value
        IN  /\ input.out.kind = "return"
            /\ (stats.status = "Success") <=> (r.acknowledged /\ r.deletedCount > 0)
            /\ (stats.status = "Failure") <=> (r.acknowledged /\ r.deletedCount = 0)
            /\ (stats.status = "Pending") <=> ~r.acknowledged
            /\ stats.deletedCount = r.deletedCount

C13_Witness ==
    /\ input.fn = "remove"
    /\ output # NoOutcome
    /\ output.outcome.kind = "return"
    /\ ~input.out.value.acknowledged
    /\ input.out.value.deletedCount > 0
    /\ output.outcome.value.status = "Pending"

\* C14: when the driver accepts the n documents given to insert, insert
\* returns n documents, the i-th being the i-th given document with the
\* identifier the driver reports at index i.
C14_InsertMergesIdsInOrder ==
    (input.fn = "insert" /\ output # NoOutcome /\ input.out.kind = "return") =>
        LET docs == output.outcome.value
        IN  /\ output.outcome.kind = "return"
            /\ Len(docs) = Len(input.query)
            /\ \A i \in 1..Len(docs) :
                  /\ docs[i].name = input.query[i].name
                  /\ docs[i]._id = input.out.value[i]

C14_Witness ==
    /\ input.fn = "insert"
    /\ output # NoOutcome
    /\ output.outcome.kind = "return"
    /\ Len(input.query) = 2
    /\ input.query[1] # input.query[2]
    /\ input.query[1]._id = Null
    /\ output.outcome.value[1]._id # Null

\* the clause the operator table gives for a where clause with a supported
\* operator, written out
NativeOperatorOf(operator) ==
    CASE operator \in {"isEq", "isTrue", "isFalse", "is0", "is1", "isNull"} -> "$eq"
      [] operator \in {"isNotEq", "isNotNull"} -> "$ne"
      [] operator = "isLt" -> "$lt"
      [] operator = "isLte" -> "$lte"
      [] operator = "isGt" -> "$gt"
      [] operator = "isGte" -> "$gte"
      [] operator \in {"isInRange", "isIn"} -> "$in"
      [] operator \in {"isNotInRange", "isNotIn"} -> "$nin"
ExpectedClause(whereClause) ==
    CASE whereClause.operator = "isEmpty" ->
            [connective |-> "$or",
             operands |-> <<[op |-> "$eq", value |-> "''"], [op |-> "$eq", value |-> "[]"],
                            [op |-> "$eq", value |-> "{}"]>>]
      [] whereClause.operator = "isNotEmpty" ->
            [connective |-> "$and",
             operands |-> <<[op |-> "$ne", value |-> "''"], [op |-> "$ne", value |-> "[]"],
                            [op |-> "$ne", value |-> "{}"]>>]
      [] whereClause.operator = "isNull" -> [op |-> "$eq", value |-> "null"]
      [] OTHER -> [op |-> NativeOperatorOf(whereClause.operator),
                   value |-> whereClause.value]
SupportedOperators ==
    {"isEq", "isNotEq", "isLt", "isLte", "isGt", "isGte", "isInRange", "isNotInRange",
     "isIn", "isNotIn", "isTrue", "isFalse", "is0", "is1", "isNull", "isNotNull",
     "isEmpty", "isNotEmpty"}

\* C15: parse of a Where whose clauses all carry supported operators returns
\* a filter with one entry per field, in order: {field: {nativeOp: value}}
\* with nativeOp from the operator table, {field: {$eq: null}} for isNull
\* whatever the value, and the fixed $or / $and clause for isEmpty /
\* isNotEmpty whatever the value.
C15_LeafTranslation ==
    (/\ input.fn = "parse"
     /\ output # NoOutcome
     /\ input.where.kind = "where"
     /\ \A i \in 1..Len(input.where.chain) :
            input.where.chain[i].operator \in SupportedOperators) =>
        /\ output.kind = "return"
        /\ Len(output.value) = Len(input.where.chain)
        /\ \A i \in 1..Len(input.where.chain) :
              /\ output.value[i].key = input.where.chain[i].key
              /\ output.value[i].clause = ExpectedClause(input.where.chain[i])

C15_Witness ==
    /\ input.fn = "parse"
    /\ output # NoOutcome
    /\ input.where.kind = "where"
    /\ Len(input.where.chain) = 2
    /\ input.where.chain[1].operator = "isNull"
    /\ input.where.chain[1].value = "v1"
    /\ input.where.chain[2].operator = "isNotEmpty"
    /\ output.kind = "return"

\* the operators outside the operator table carried by the leaves of a where
\* expression, by name
RECURSIVE UnsupportedLeafOperators(_)
UnsupportedLeafOperators(where) ==
    IF where.kind = "raw" THEN {}
    ELSE IF where.kind = "where"
    THEN {WhereOperatorName(where.chain[i].operator) :
            i \in {j \in 1..Len(where.chain) :
                      where.chain[j].operator \notin SupportedOperators}}
    ELSE UNION {UNION {UnsupportedLeafOperators(where.entries[i].values[j]) :
                         j \in 1..Len(where.entries[i].values)} :
                  i \in 1..Len(where.entries)}

\* the keys other than 'and' and 'or' of the objects of a where expression
RECURSIVE UnsupportedKeys(_)
UnsupportedKeys(where) ==
    IF where.kind # "object" THEN {}
    ELSE {where.entries[i].key :
            i \in {j \in 1..Len(where.entries) :
                      where.entries[j].key \notin {"and", "or"}}}
         \cup UNION {UNION {UnsupportedKeys(where.entries[i].values[j]) :
                               j \in 1..Len(where.entries[i].values)} :
                        i \in 1..Len(where.entries)}

\* C16: parse of a where expression in which some leaf carries an operator
\* outside the operator table fails with an UnsupportedOperatorError and
\* returns no filter; the error names such an operator (or, the expression
\* having a key other than 'and' and 'or' as well, that key).
C16_UnsupportedLeafOperatorFails ==
    (/\ input.fn = "parse"
     /\ output # NoOutcome
     /\ UnsupportedLeafOperators(input.where) # {}) =>
        /\ output.kind = "throw"
        /\ output.error \in {UnsupportedOperatorError(name) :
                                name \in UnsupportedLeafOperators(input.where)
                                          \cup UnsupportedKeys(input.where)}

\* C17: parse of an object that is no Where, one of whose keys is neither
\* 'and' nor 'or', fails with an UnsupportedOperatorError naming such a key.
C17_OtherKeyFails ==
    (/\ input.fn = "parse"
     /\ output # NoOutcome
     /\ input.where.kind = "object"
     /\ \E i \in 1..Len(input.where.entries) :
            input.where.entries[i].key \notin {"and", "or"}) =>
        /\ output.kind = "throw"
        /\ output.error \in {UnsupportedOperatorError(input.where.entries[i].key) :
                                i \in {j \in 1..Len(input.where.entries) :
                                          input.where.entries[j].key \notin {"and", "or"}}}

\* C18: parse of a logical node {c: [e1, ..., en]}, c being 'and' or 'or',
\* each of whose operands parse translates, returns {$c: [parse(e1), ...,
\* parse(en)]}, also when operands are logical nodes themselves.
C18_LogicalNodeComposition ==
    (/\ input.fn = "parse"
     /\ output # NoOutcome
     /\ input.where.kind = "object"
     /\ Len(input.where.entries) = 1
     /\ input.where.entries[1].key \in {"and", "or"}
     /\ \A j \in 1..Len(input.where.entries[1].values) :
            parse(OperatorTable, input.where.entries[1].values[j], TRUE).kind = "return") =>
        LET values == input.where.entries[1].values
        IN  output =
                Return(<<[key |-> IF input.where.entries[1].key = "and"
                                  THEN "$and" ELSE "$or",
                          clause |-> [j \in 1..Len(values) |->
                                         parse(OperatorTable, values[j], TRUE).value]]>>)

\* C19: parse of a logical node with an empty operand list returns the empty
\* filter, not a connective over an empty array.
C19_EmptyOperandsGiveEmptyFilter ==
    (/\ input.fn = "parse"
     /\ output # NoOutcome
     /\ input.where.kind = "object"
     /\ Len(input.where.entries) = 1
     /\ input.where.entries[1].key \in {"and", "or"}
     /\ input.where.entries[1].values = <<>>) =>
        output = Return(<<>>)

\* C20: the filter parse returns for a where expression is the one the
\* operator table as loaded gives, whatever calls were made before and
\* whatever the callers did with the filters they were returned.
C20_ResultIndependentOfEarlierCalls ==
    input.fn = "parse" => output = parse(OperatorTable, input.where, TRUE)

\* C21: buildUpdateQuery fails with the parameter-count error naming the
\* three counts whenever the three lists are not of one length, whatever the
\* lengths, and returns no command then.
C21_MismatchedCountsRejected ==
    (/\ input.fn = "buildUpdateQuery"
     /\ output # NoOutcome
     /\ ~(Len(input.updates) = Len(input.wheres)
          /\ Len(input.wheres) = Len(input.methods))) =>
        /\ output.kind = "throw"
        /\ output.error.message[2] = Decimal(Len(input.updates))
        /\ output.error.message[4] = Decimal(Len(input.wheres))
        /\ output.error.message[6] = Decimal(Len(input.methods))
        /\ output.error =
               ParameterCountError(Len(input.updates), Len(input.wheres),
                                   Len(input.methods))

\* two updates, one where clause, two methods: rejected
C21_Witness ==
    /\ input.fn = "buildUpdateQuery"
    /\ Len(input.updates) = 2 /\ Len(input.wheres) = 1 /\ Len(input.methods) = 2
    /\ output.kind = "throw"
    /\ output.error.message[2] = "2" /\ output.error.message[4] = "1"

\* the triples of a buildUpdateQuery call are well formed: one length, every
\* method an UpdateMethod, every where clause translatable
WellFormedTriples ==
    /\ Len(input.updates) = Len(input.wheres)
    /\ Len(input.wheres) = Len(input.methods)
    /\ \A i \in 1..Len(input.updates) :
          /\ input.methods[i] \in {"UpdateOne", "UpdateMany"}
          /\ parse(OperatorTable, input.wheres[i], TRUE).kind = "return"

\* C22: buildUpdateQuery with N > 1 well-formed triples returns N bulk
\* documents in input order, the i-th built from the i-th update, where and
\* method: updateOne with upsert true, updateMany without an upsert key.
C22_BulkDocumentsInOrder ==
    (/\ input.fn = "buildUpdateQuery"
     /\ output # NoOutcome
     /\ Len(input.updates) > 1
     /\ WellFormedTriples) =>
        /\ output.kind = "return"
        /\ Len(output.value) = Len(input.updates)
        /\ \A i \in 1..Len(input.updates) :
              LET filter == parse(OperatorTable, input.wheres[i], TRUE).value
              IN  output.value[i] =
                      IF input.methods[i] = "UpdateOne"
                      THEN [updateOne |-> [filter |-> filter,
                                           update |-> [set |-> input.updates[i]],
                                           upsert |-> TRUE]]
                      ELSE [updateMany |-> [filter |-> filter,
                                            update |-> [set |-> input.updates[i]]]]

\* two different triples, an UpdateOne followed by an UpdateMany
C22_Witness ==
    /\ input.fn = "buildUpdateQuery"
    /\ input.methods = <<"UpdateOne", "UpdateMany">>
    /\ input.updates = <<[name |-> "John"], [name |-> "Jane"]>>
    /\ Len(input.wheres) = 2 /\ input.wheres[1] # input.wheres[2]
    /\ output.kind = "return"
    /\ Len(output.value) = 2

\* names of the stages of a pipeline, in order
StageNames(pipeline) == [i \in 1..Len(pipeline) |-> pipeline[i].stage]
\* the stage names of a pipeline with a $match before and after the $group
\* and $sort stages that params asks for
NamesInOrder(before, params, after) ==
    (IF before # <<>> THEN <<"$match">> ELSE <<>>)
    \o (IF params.groupBy # <<>> THEN <<"$group">> ELSE <<>>)
    \o (IF params.sort # <<>> THEN <<"$sort">> ELSE <<>>)
    \o (IF after # <<>> THEN <<"$match">> ELSE <<>>)

AllGiven(params) ==
    /\ params.groupBy # <<>> /\ params.filterBy # <<>> /\ params.sort # <<>>
    /\ params.sum # <<>> /\ params.average # <<>> /\ params.min # <<>>
    /\ params.max # <<>> /\ params.count /\ params.where # <<>>

PairsUp(url, hosts, ports) ==
    /\ Len(url.hostsAndPorts) = Len(hosts)
    /\ \A i \in 1..Len(hosts) :
          /\ url.hostsAndPorts[i].host = hosts[i]
          /\ url.hostsAndPorts[i].port = IF i <= Len(ports) THEN ports[i] ELSE ports[1]

\* C25: for every config, also one with more hosts than ports, buildMongoUrl
\* (either definition) returns a url that pairs the hosts with the ports,
\* localhost and 27017 standing in for missing hosts or ports (an empty host
\* list may count as missing or as given).
C25_UrlPairsHostsAndPorts ==
    (input.fn \in {"buildMongoUrl", "buildMongoUrlFirst"} /\ output # NoOutcome) =>
        LET given == IF input.config.hosts # <<>> THEN input.config.hosts[1] ELSE <<>>
            ports == IF input.config.ports # <<>> /\ input.config.ports[1] # <<>>
                     THEN input.config.ports[1] ELSE <<"27017">>
        IN  /\ output.kind = "return"
            /\ \/ PairsUp(output.value, IF given = <<>> THEN <<"localhost">> ELSE given,
                          ports)
               \/ input.config.hosts # <<>> /\ PairsUp(output.value, given, ports)

\* the same of the first definition alone
FirstDefinitionPairsUp ==
    input.fn = "buildMongoUrlFirst" => C25_UrlPairsHostsAndPorts

\* C26: a startTransaction that began without a held session and failed
\* (startSession or the session's startTransaction raising) leaves the adapter
\* without a held session.
C26_FailedStartLeavesIdle ==
    (/\ last.op = "startTransaction"
     /\ last.pre = Null
     /\ last.outcome.kind = "throw") =>
        currentSession = Null

\* every caller made one call, a startTransaction, on the adapter that held
\* no session when the first of them began
OnlyStartsIssued ==
    \A t \in 1..MaxCallers : tasks[t].calls = 1 /\ tasks[t].op = "startTransaction"
\* the callers whose call did what does(task) says
CallersThat(does(_)) == {t \in 1..MaxCallers : does(tasks[t])}
\* the number of driver calls named name the callers made
CallCount(name) ==
    Cardinality({p \in (1..MaxCallers) \X (1..2) :
                    /\ p[2] <= Len(tasks[p[1]].driver)
                    /\ tasks[p[1]].driver[p[2]].name = name})

C28_ReleaseTouchesOwnSessionOnly ==
    \A t \in 1..MaxCallers :
        tasks[t].op \in {"commitTransaction", "rollbackTransaction"} =>
            /\ tasks[t].ending # Null => tasks[t].ending = tasks[t].on
            /\ tasks[t].cleared # Null => tasks[t].cleared = tasks[t].on

\* C29: the driver's commitTransaction is not invoked on a session on which
\* an earlier invocation of it succeeded, whatever became of the endSession
\* that followed.
C29_NoSecondCommit ==
    [][\A i \in 1..Len(last'.driver) :
           last'.driver[i].name = "commitTransaction" =>
               last'.driver[i].on \notin committed]_vars

\* the driver calls that start, commit, abort or end a session
SessionCalls ==
    {"startSession", "startTransaction", "commitTransaction", "abortTransaction",
     "endSession"}

\* C30: a call of find, count, aggregate, update, insert or remove, returning
\* or failing, leaves the held session and the driver's sessions as they were
\* and invokes none of startSession, startTransaction, commitTransaction,
\* abortTransaction and endSession.
C30_DataOpsKeepSessionState ==
    [][last'.op \in DataOps =>
           /\ currentSession' = currentSession
           /\ nextSession' = nextSession
           /\ openSessions' = openSessions
           /\ transactions' = transactions
           /\ committed' = committed
           /\ CallNames(last'.driver) \cap SessionCalls = {}]_vars

\* a data operation failed while a session was held, which is still held
C30_Witness ==
    /\ last.op \in DataOps
    /\ last.pre # Null
    /\ last.outcome.kind = "throw"
    /\ Len(last.driver) = 1
    /\ currentSession = last.pre

====
